---- MODULE Spec2Model ----
(***************************************************************************)
(* One invocation of the `nucypher alice` command line                     *)
(* (src/nucypher/cli/commands/alice.py).  A behaviour is one process: the  *)
(* raw parameters are fixed in Init, the option groups are built, the      *)
(* configuration is resolved, the character is unlocked and the command    *)
(* body runs (view takes no option group and only reads the configuration  *)
(* file).  Every call that leaves alice.py (collaborators in           *)
(* nucypher.cli.actions, the configuration class, the environment, the     *)
(* controllers) is appended to `calls` with its arguments and its result,  *)
(* so that ordering and "never called" properties are state predicates.    *)
(*                                                                         *)
(* Python values: None is the string "None" for string-valued options and  *)
(* the empty tuple for optional integers (<<k>> is the integer k); the     *)
(* tri-state --federated-only flag is "True" / "False" / "None".           *)
(* Pass-through options that alice.py never inspects (network,             *)
(* discovery_port, registry_filepath, middleware, teacher_uri, min_stake,  *)
(* label, the Bob keys, expiration, poa, light, duration_periods) are not  *)
(* represented.                                                            *)
(***************************************************************************)
EXTENDS Integers, Sequences, FiniteSets, TLC

VARIABLES
    params,           \* the raw command-line parameters of this invocation
    pc,               \* position of the process in the command
    opts,             \* the AliceConfigOptions object (self.* of lines 89-98)
    config,           \* the AliceConfiguration create_config returned
    client_password,  \* local of create_character (line 196)
    alice,            \* the character make_cli_character returned (ALICE)
    listener,         \* state of the control-plane listener
    transport,        \* which controller was created: "None", "rpc", "http"
    calls,            \* every call leaving alice.py, in order
    emitted,          \* what the commands wrote to the emitter, in order
    logged,           \* number of ALICE.log.critical calls
    served,           \* requests processed by the listener
    error,            \* the exception that ended the command, or "None"
    exit_code         \* process exit status, -1 while running

vars == <<params, pc, opts, config, client_password, alice, listener,
          transport, calls, emitted, logged, served, error, exit_code>>

\* Largest threshold parameter (m, n) enumerated.
MaxN == 2

\* Requests a serving listener processes before the run is cut off.
MaxRequests == 2

None == "None"

NoInt == <<>>

OptInts == {NoInt} \cup {<<k>> : k \in 0..MaxN}

OptWei == {NoInt, <<1>>}

\* Python truthiness of an optional string: None and "" are falsy.
Truthy(s) == s \notin {"None", ""}

\* Python truthiness of the tri-state flag: only True is truthy.
FlagSet(f) == f = "True"

CharacterCommands ==
    {"run", "public-keys", "derive-policy-pubkey", "grant", "revoke", "decrypt"}

\* The commands decorated with the configuration option group
\* (@group_config_options, directly or through @group_character_options).
ConfigCommands == CharacterCommands \cup {"init", "destroy"}

Commands == ConfigCommands \cup {"view"}

Call(op, arg, ret) == [op |-> op, arg |-> arg, ret |-> ret]

Called(op) == \E i \in DOMAIN calls : calls[i].op = op

CountCalls(op) == Cardinality({i \in DOMAIN calls : calls[i].op = op})

NoOptions ==
    [built |-> FALSE, dev |-> FALSE, provider_uri |-> None, geth |-> FALSE,
     federated_only |-> None, eth_node |-> "NO_BLOCKCHAIN_CONNECTION",
     pay_with |-> None]

NoConfig ==
    [built |-> FALSE, dev_mode |-> FALSE, federated_only |-> FALSE,
     checksum_address |-> None, provider_uri |-> None]

NoCharacter == [built |-> FALSE, federated_only |-> FALSE]

\* The options each command declares; an option a command does not declare
\* keeps its click default.
Flags(declared) == IF declared THEN BOOLEAN ELSE {FALSE}

Ints(declared) == IF declared THEN OptInts ELSE {NoInt}

Wei(declared) == IF declared THEN OptWei ELSE {NoInt}

ParamsOf(c) ==
    { [cmd |-> c, dev |-> f[1], geth |-> f[2], hw_wallet |-> f[3],
       json_ipc |-> f[4], debug |-> f[5], dry_run |-> f[6],
       federated_only |-> s[1], provider_uri |-> s[2], pay_with |-> s[3],
       config_file |-> s[4], message_kit |-> s[5],
       m |-> k[1], n |-> k[2], value |-> k[3], rate |-> k[4]] :
         f \in Flags(c \in ConfigCommands) \X Flags(c \in ConfigCommands)
                \X Flags(c \in CharacterCommands)
                \X Flags(c \in CharacterCommands)
                \X Flags(c = "run") \X Flags(c = "run"),
         s \in (IF c \in ConfigCommands THEN {"True", "False", "None"}
                                         ELSE {"None"})
                \X (IF c = "init" THEN {None, "", "https://provider"}
                    ELSE IF c \in ConfigCommands THEN {None, "https://provider"}
                    ELSE {None})
                \X (IF c \in ConfigCommands THEN {None, "0xA11CE"} ELSE {None})
                \X (IF c = "init" THEN {None} ELSE {None, "alice.json"})
                \X (IF c = "decrypt" THEN {"valid", "malformed"} ELSE {"valid"}),
         k \in Ints(c \in {"init", "grant"}) \X Ints(c \in {"init", "grant"})
                \X Wei(c = "grant") \X Wei(c \in {"init", "grant"}) }

Init ==
    /\ params \in UNION {ParamsOf(c) : c \in Commands}
    /\ pc = "start"
    /\ opts = NoOptions
    /\ config = NoConfig
    /\ client_password = None
    /\ alice = NoCharacter
    /\ listener = "None"
    /\ transport = "None"
    /\ calls = <<>>
    /\ emitted = <<>>
    /\ logged = 0
    /\ served = 0
    /\ error = "None"
    /\ exit_code = -1

\* An exception leaves the command: the process ends with `code`.
Raise(err, code) ==
    /\ error' = err
    /\ exit_code' = code
    /\ pc' = "done"

\* click.UsageError and its subclasses exit with status 2.
UsageExit == 2

\* line 78: `if federated_only and geth`
IncompatibleModeFlags(federated_only, geth) == FlagSet(federated_only) /\ geth

\* AliceConfigOptions.__init__ with the managed client obtained before the
\* mutual-exclusion check.
ConfigOptionsInitGethFirst ==
    /\ pc = "start"
    /\ params.cmd \in ConfigCommands
    /\ UNCHANGED <<params, config, client_password, alice, listener,
                   transport, emitted, logged, served>>
    /\ calls' = IF params.geth
                  THEN Append(calls, Call("get_provider_process", <<>>, "eth_node"))
                  ELSE calls
    /\ IF IncompatibleModeFlags(params.federated_only, params.geth)
         THEN /\ Raise("BadOptionUsage:--geth", UsageExit)
              /\ UNCHANGED opts
         ELSE /\ opts' = [built |-> TRUE, dev |-> params.dev,
                          provider_uri |-> IF params.geth THEN "file:///geth.ipc"
                                                          ELSE params.provider_uri,
                          geth |-> params.geth,
                          federated_only |-> params.federated_only,
                          eth_node |-> IF params.geth THEN "eth_node"
                                       ELSE "NO_BLOCKCHAIN_CONNECTION",
                          pay_with |-> params.pay_with]
              /\ pc' = "options"
              /\ UNCHANGED <<error, exit_code>>

\* AliceConfigOptions.__init__ (lines 74-98)
ConfigOptionsInit ==
    /\ pc = "start"
    /\ params.cmd \in ConfigCommands
    /\ UNCHANGED <<params, config, client_password, alice, listener,
                   transport, emitted, logged, served>>
    /\ IF IncompatibleModeFlags(params.federated_only, params.geth)
         THEN /\ Raise("BadOptionUsage:--geth", UsageExit)
              /\ UNCHANGED <<opts, calls>>
         ELSE /\ calls' = IF params.geth
                            THEN Append(calls, Call("get_provider_process", <<>>, "eth_node"))
                            ELSE calls
              /\ opts' = [built |-> TRUE, dev |-> params.dev,
                          provider_uri |-> IF params.geth THEN "file:///geth.ipc"
                                                          ELSE params.provider_uri,
                          geth |-> params.geth,
                          federated_only |-> params.federated_only,
                          eth_node |-> IF params.geth THEN "eth_node"
                                       ELSE "NO_BLOCKCHAIN_CONNECTION",
                          pay_with |-> params.pay_with]
              /\ pc' = "options"
              /\ UNCHANGED <<error, exit_code>>

\* line 274: AliceConfiguration.default_filepath()
DefaultFilepath == "/default/alice.json"

\* line 274: `config_file or AliceConfiguration.default_filepath()`
ConfigurationFileLocation(config_file) ==
    IF Truthy(config_file) THEN config_file ELSE DefaultFilepath

\* What AliceConfiguration._read_configuration_file can do (line 275).
ReadOutcomes == {"ok", "FileNotFoundError", "ConfigurationError"}

\* view (lines 269-277): no option group is built; the file is read and
\* printed, and any failure of the read propagates.
View ==
    /\ pc = "start"
    /\ params.cmd = "view"
    /\ UNCHANGED <<params, opts, config, client_password, alice, listener,
                   transport, logged, served>>
    /\ \E outcome \in ReadOutcomes :
         LET location == ConfigurationFileLocation(params.config_file)
             located == IF Truthy(params.config_file)
                          THEN calls
                          ELSE Append(calls,
                                 Call("AliceConfiguration.default_filepath",
                                      <<>>, DefaultFilepath))
         IN  /\ calls' = Append(located,
                   Call("AliceConfiguration._read_configuration_file",
                        [filepath |-> location], outcome))
             /\ IF outcome = "ok"
                  THEN /\ emitted' = emitted \o
                             << "Alice Configuration " \o location,
                                "configuration json" >>
                       /\ pc' = "done"
                       /\ exit_code' = 0
                       /\ UNCHANGED error
                  ELSE /\ Raise(outcome, 1)
                       /\ UNCHANGED emitted

\* line 105: `if self.federated_only is False`
EphemeralFederationInvalidLoose(federated_only) == ~FlagSet(federated_only)

EphemeralFederationInvalid(federated_only) == federated_only = "False"

\* What AliceConfiguration.from_configuration_file can do (lines 121-131):
\* return a configuration, raise FileNotFoundError, or raise something else.
LoadOutcomes == {"ok", "FileNotFoundError", "ConfigurationError"}

\* line 132: `except FileNotFoundError`
RecoverableAny(outcome) == outcome # "ok"

Recoverable(outcome) == outcome = "FileNotFoundError"

\* The configuration file decides federated_only and, unless --pay-with
\* overrides it, the checksum address (the persistent branch passes no
\* federated_only override, lines 121-131).
LoadedConfig(file_federated) ==
    [built |-> TRUE, dev_mode |-> FALSE, federated_only |-> file_federated,
     checksum_address |-> IF opts.pay_with # None THEN opts.pay_with ELSE "0xF11E",
     provider_uri |-> opts.provider_uri]

\* lines 110-117
EphemeralConfig ==
    [built |-> TRUE, dev_mode |-> TRUE, federated_only |-> TRUE,
     checksum_address |-> None, provider_uri |-> opts.provider_uri]

\* AliceConfigOptions.create_config (lines 100-135)
CreateConfig ==
    /\ pc = "options"
    /\ params.cmd # "init"
    /\ UNCHANGED <<params, opts, client_password, alice, listener, transport,
                   emitted, logged, served>>
    /\ IF opts.dev
         THEN /\ UNCHANGED calls
              /\ IF EphemeralFederationInvalid(opts.federated_only)
                   THEN /\ Raise("BadOptionUsage:--federated-only", UsageExit)
                        /\ UNCHANGED config
                   ELSE /\ config' = EphemeralConfig
                        /\ pc' = "config"
                        /\ UNCHANGED <<error, exit_code>>
         ELSE \E outcome \in LoadOutcomes, file_federated \in BOOLEAN,
                 handler \in {"returns", "raises"} :
                LET load == Call("from_configuration_file",
                                 [filepath |-> params.config_file,
                                  checksum_address |-> opts.pay_with],
                                 outcome)
                    handle == Call("handle_missing_configuration_file",
                                   [config_file |-> params.config_file],
                                   handler)
                IN  IF outcome = "ok"
                      THEN /\ calls' = Append(calls, load)
                           /\ config' = LoadedConfig(file_federated)
                           /\ pc' = "config"
                           /\ UNCHANGED <<error, exit_code>>
                      ELSE IF Recoverable(outcome)
                        THEN /\ calls' = Append(Append(calls, load), handle)
                             /\ IF handler = "returns"
                                  THEN /\ config' = LoadedConfig(file_federated)
                                       /\ pc' = "config"
                                       /\ UNCHANGED <<error, exit_code>>
                                  ELSE /\ Raise("MissingConfigFile", 1)
                                       /\ UNCHANGED config
                        ELSE /\ calls' = Append(calls, load)
                             /\ Raise(outcome, 1)
                             /\ UNCHANGED config

\* destroy (lines 285-291), after create_config
DestroyConfiguration ==
    /\ pc = "config"
    /\ params.cmd = "destroy"
    /\ calls' = Append(calls, Call("destroy_configuration", <<>>, "ok"))
    /\ pc' = "done"
    /\ exit_code' = 0
    /\ UNCHANGED <<params, opts, config, client_password, alice, listener,
                   transport, emitted, logged, served, error>>

\* line 197
EthPasswordIsNeeded(cfg, hw_wallet) ==
    ~cfg.federated_only /\ ~hw_wallet /\ ~cfg.dev_mode

\* create_character, lines 196-205.  Line 203 constructs a BadOptionUsage
\* and discards it (there is no `raise`), so the NO_PASSWORD branch changes
\* nothing and control continues.
ObtainCredential ==
    /\ pc = "config"
    /\ params.cmd \in CharacterCommands
    /\ pc' = "credential"
    /\ UNCHANGED <<params, opts, config, alice, listener, transport, emitted,
                   logged, served, error, exit_code>>
    /\ IF EthPasswordIsNeeded(config, params.hw_wallet)
         THEN IF params.json_ipc
                THEN \E env \in {"NO_PASSWORD", "env-secret"} :
                       /\ calls' = Append(calls,
                             Call("os.environ.get",
                                  "NUCYPHER_ENVVAR_ALICE_ETH_PASSWORD", env))
                       /\ client_password' = env
                ELSE /\ calls' = Append(calls,
                             Call("get_client_password",
                                  [checksum_address |-> config.checksum_address],
                                  "typed-secret"))
                     /\ client_password' = "typed-secret"
         ELSE UNCHANGED <<calls, client_password>>

AuthFailureMessage == "AuthenticationFailed"

\* lines 218-220 without the exit: the handler falls through and
\* create_character returns to the command body.
OnAuthenticationFailedNoExit ==
    /\ emitted' = Append(emitted, AuthFailureMessage)
    /\ pc' = "character"
    /\ UNCHANGED <<alice, error, exit_code>>

\* lines 218-220 as a retry: the failure is echoed and the credential is
\* asked for again.
OnAuthenticationFailedRetry ==
    /\ emitted' = Append(emitted, AuthFailureMessage)
    /\ pc' = "config"
    /\ UNCHANGED <<alice, error, exit_code>>

\* lines 218-220: echo the failure, then click's ctx.exit(1)
OnAuthenticationFailed ==
    /\ emitted' = Append(emitted, AuthFailureMessage)
    /\ Raise("AuthenticationFailed", 1)
    /\ UNCHANGED alice

\* load_seednodes as each command passes it (lines 305, 341, 356, 388, 424, 450)
LoadSeednodes(cmd) == cmd \in {"run", "grant", "revoke"}

\* unlock_keyring requested for every configuration.
UnlockKeyringAlways(cfg) == TRUE

\* line 210: `unlock_keyring=not config.dev_mode`
UnlockKeyring(cfg) == ~cfg.dev_mode

\* create_character, lines 207-220.  The keyring is unlocked only when
\* unlock_keyring is requested, so only then can authentication fail.
MakeCharacter ==
    /\ pc = "credential"
    /\ UNCHANGED <<params, opts, config, client_password, listener, transport,
                   logged, served>>
    /\ \E result \in IF UnlockKeyring(config)
                        THEN {"ALICE", "AuthenticationFailed"}
                        ELSE {"ALICE"} :
         /\ calls' = Append(calls,
               Call("make_cli_character",
                    [unlock_keyring |-> UnlockKeyring(config),
                     client_password |-> client_password,
                     load_seednodes |-> LoadSeednodes(params.cmd)],
                    result))
         /\ IF result = "AuthenticationFailed"
              THEN OnAuthenticationFailed
              ELSE /\ alice' = [built |-> TRUE,
                                federated_only |-> config.federated_only]
                   /\ pc' = "character"
                   /\ UNCHANGED <<emitted, error, exit_code>>

\* The branches of line 310 exchanged.
TransportKindSwapped(json_ipc) == IF json_ipc THEN "http" ELSE "rpc"

\* run, lines 310 and 317: `if general_config.json_ipc` takes the RPC
\* branch, `else` the HTTP branch.
TransportKind(json_ipc) == IF json_ipc THEN "rpc" ELSE "http"

\* run, lines 310-311 and 318-319: exactly one controller is made, chosen by
\* general_config.json_ipc.  A failure of the factory is caught at line 325.
RunMakeController ==
    /\ pc = "character"
    /\ params.cmd = "run"
    /\ UNCHANGED <<params, opts, config, client_password, alice, logged,
                   served, exit_code>>
    /\ \E result \in {"controller", "ControllerError"} :
         /\ calls' = Append(calls,
               IF TransportKind(params.json_ipc) = "rpc"
                 THEN Call("make_rpc_controller", <<>>, result)
                 ELSE Call("make_web_controller",
                           [crash_on_error |-> params.debug], result))
         /\ emitted' = IF TransportKind(params.json_ipc) = "rpc" THEN emitted
                       ELSE Append(emitted, "Alice Verifying Key")
         /\ IF result = "controller"
              THEN /\ transport' = TransportKind(params.json_ipc)
                   /\ listener' = "Created"
                   /\ pc' = "created"
                   /\ UNCHANGED error
              ELSE /\ error' = result
                   /\ pc' = "crash"
                   /\ UNCHANGED <<transport, listener>>

\* The dry_run argument the controller's start receives: line 313 passes
\* none (rpc_controller.start()), line 322 passes dry_run.
DryRunForwarded(json_ipc, dry_run) == IF json_ipc THEN FALSE ELSE dry_run

\* run, line 312 (RPC: make_control_transport) and lines 320-322 (HTTP: the
\* bind inside controller.start): the listener is bound, or the bind fails.
RunBind ==
    /\ pc = "created"
    /\ UNCHANGED <<params, opts, config, client_password, alice, transport,
                   logged, served, exit_code>>
    /\ \E result \in {"bound", "ListenerError"} :
         /\ calls' = Append(calls,
               IF transport = "rpc"
                 THEN Call("make_control_transport", <<>>, result)
                 ELSE Call("controller.start",
                           [dry_run |-> DryRunForwarded(params.json_ipc,
                                                        params.dry_run)],
                           result))
         /\ emitted' = IF transport = "rpc" THEN emitted
                       ELSE Append(emitted, "Running HTTP Alice Controller")
         /\ IF result = "bound"
              THEN /\ listener' = "Bound"
                   /\ pc' = "bound"
                   /\ UNCHANGED error
              ELSE /\ error' = result
                   /\ pc' = "crash"
                   /\ UNCHANGED listener

\* run, line 313 (rpc_controller.start()) and the rest of line 322: a start
\* told to dry-run stops at once and returns; any other start serves.
RunStart ==
    /\ pc = "bound"
    /\ UNCHANGED <<params, opts, config, client_password, alice, transport,
                   emitted, logged, served, error>>
    /\ calls' = IF transport = "rpc"
                  THEN Append(calls, Call("rpc_controller.start", <<>>, "started"))
                  ELSE calls
    /\ IF DryRunForwarded(params.json_ipc, params.dry_run)
         THEN /\ listener' = "Stopped"
              /\ pc' = "done"
              /\ exit_code' = 0
         ELSE /\ listener' = "Serving"
              /\ pc' = "serving"
              /\ UNCHANGED exit_code

\* While Serving the listener hands one request to the dispatcher.
Serve ==
    /\ pc = "serving"
    /\ served < MaxRequests
    /\ served' = served + 1
    /\ UNCHANGED <<params, pc, opts, config, client_password, alice, listener,
                   transport, calls, emitted, logged, error, exit_code>>

\* start() returns (the listener was shut down): run returns, exit 0.
ServeStop ==
    /\ pc = "serving"
    /\ listener' = "Stopped"
    /\ pc' = "done"
    /\ exit_code' = 0
    /\ UNCHANGED <<params, opts, config, client_password, alice, transport,
                   calls, emitted, logged, served, error>>

\* An error is raised out of start() while serving.
ServeCrash ==
    /\ pc = "serving"
    /\ error' = "OperationError"
    /\ pc' = "crash"
    /\ UNCHANGED <<params, opts, config, client_password, alice, listener,
                   transport, calls, emitted, logged, served, exit_code>>

\* The handler re-raising whatever the debug flag is.
HandleCrashAlwaysRaises ==
    /\ pc = "crash"
    /\ logged' = logged + 1
    /\ emitted' = Append(emitted, "Crash:" \o error)
    /\ listener' = "Crashed"
    /\ pc' = "done"
    /\ exit_code' = 1
    /\ UNCHANGED <<params, opts, config, client_password, alice, transport,
                   calls, served, error>>

\* run, lines 325-329: log, one diagnostic line, re-raise only with --debug.
HandleCrash ==
    /\ pc = "crash"
    /\ logged' = logged + 1
    /\ emitted' = Append(emitted, "Crash:" \o error)
    /\ listener' = "Crashed"
    /\ pc' = "done"
    /\ exit_code' = IF params.debug THEN 1 ELSE 0
    /\ UNCHANGED <<params, opts, config, client_password, alice, transport,
                   calls, served, error>>

\* A command body that is one controller call (lines 342, 357, 402, 428,
\* 454): the result is returned, an error of the service propagates.
ControllerCall(op, request) ==
    /\ pc = "character"
    /\ \E result \in {"response", "OperationError"} :
         /\ calls' = Append(calls, Call(op, request, result))
         /\ IF result = "response"
              THEN /\ exit_code' = 0
                   /\ pc' = "done"
                   /\ UNCHANGED error
              ELSE Raise(result, 1)
    /\ UNCHANGED <<params, opts, config, client_password, alice, listener,
                   transport, emitted, logged, served>>

\* public_keys, lines 336-343
PublicKeys ==
    /\ params.cmd = "public-keys"
    /\ ControllerCall("controller.public_keys", <<>>)

\* derive_policy_pubkey, lines 351-357
DerivePolicyPubkey ==
    /\ params.cmd = "derive-policy-pubkey"
    /\ ControllerCall("controller.derive_policy_encrypting_key", <<>>)

\* grant, lines 391-401: m and n as given; value and rate are added only
\* when ALICE is not federated (payment = <<>> when they are left out).
GrantRequest(m, n, value, rate, federated_only) ==
    [m |-> m, n |-> n,
     payment |-> IF ~federated_only THEN <<value, rate>> ELSE <<>>]

\* grant, lines 373-402
Grant ==
    /\ params.cmd = "grant"
    /\ ControllerCall("controller.grant",
                      GrantRequest(params.m, params.n, params.value,
                                   params.rate, alice.federated_only))

\* revoke, lines 411-428
Revoke ==
    /\ params.cmd = "revoke"
    /\ ControllerCall("controller.revoke", <<>>)

\* decrypt, lines 437-455: message_kit is forwarded as given
Decrypt ==
    /\ params.cmd = "decrypt"
    /\ ControllerCall("controller.decrypt",
                      [message_kit |-> params.message_kit])

\* line 142: `if not self.provider_uri and not self.federated_only`
ProviderRequiredNoneOnly(provider_uri, federated_only) ==
    provider_uri = None /\ ~FlagSet(federated_only)

ProviderRequired(provider_uri, federated_only) ==
    ~Truthy(provider_uri) /\ ~FlagSet(federated_only)

\* line 148 without the network-mode test.
AccountSelectionNeededAnyMode(pay_with, federated_only) == ~Truthy(pay_with)

\* line 148: `if not pay_with and not self.federated_only`
AccountSelectionNeeded(pay_with, federated_only) ==
    ~Truthy(pay_with) /\ ~FlagSet(federated_only)

\* The two checks of generate_config in the other order.
GenerateRejectionProviderFirst(dev, provider_uri, federated_only) ==
    IF ProviderRequired(provider_uri, federated_only)
      THEN "BadOptionUsage:--provider"
      ELSE IF dev THEN "BadArgumentUsage" ELSE "None"

\* generate_config, lines 139-145: the exception raised before anything is
\* generated, "None" when both checks pass.
GenerateRejection(dev, provider_uri, federated_only) ==
    IF dev
      THEN "BadArgumentUsage"
      ELSE IF ProviderRequired(provider_uri, federated_only)
             THEN "BadOptionUsage:--provider"
             ELSE "None"

\* init (lines 250-263) with AliceConfigOptions.generate_config (137-165)
GenerateConfig ==
    /\ pc = "options"
    /\ params.cmd = "init"
    /\ UNCHANGED <<params, opts, config, client_password, alice, listener,
                   transport, emitted, logged, served>>
    /\ IF GenerateRejection(opts.dev, opts.provider_uri,
                            opts.federated_only) # "None"
         THEN /\ Raise(GenerateRejection(opts.dev, opts.provider_uri,
                                         opts.federated_only), UsageExit)
              /\ UNCHANGED calls
         ELSE \E account \in {"0xACC1", "0xACC2"} :
                  LET select == AccountSelectionNeeded(opts.pay_with,
                                                       opts.federated_only)
                      pay_with == IF select THEN account ELSE opts.pay_with
                      selected ==
                          IF select
                            THEN Append(calls,
                                   Call("select_client_account",
                                        [provider_uri |-> opts.provider_uri],
                                        account))
                            ELSE calls
                  IN  /\ calls' = selected \o
                         << Call("get_nucypher_password", [confirm |-> TRUE],
                                 "new-secret"),
                            Call("AliceConfiguration.generate",
                                 [checksum_address |-> pay_with,
                                  federated_only |-> opts.federated_only,
                                  provider_uri |-> opts.provider_uri,
                                  m |-> params.m, n |-> params.n,
                                  rate |-> params.rate],
                                 "new_alice_config"),
                            Call("paint_new_installation_help", <<>>, "ok") >>
                      /\ pc' = "done"
                      /\ exit_code' = 0
                      /\ UNCHANGED error

Next ==
    \/ ConfigOptionsInit
    \/ View
    \/ CreateConfig
    \/ GenerateConfig
    \/ DestroyConfiguration
    \/ ObtainCredential
    \/ MakeCharacter
    \/ RunMakeController
    \/ RunBind
    \/ RunStart
    \/ Serve
    \/ ServeStop
    \/ ServeCrash
    \/ HandleCrash
    \/ PublicKeys
    \/ DerivePolicyPubkey
    \/ Grant
    \/ Revoke
    \/ Decrypt

Spec == Init /\ [][Next]_vars

(***************************************************************************)
(* Properties                                                              *)
(***************************************************************************)

\* The calls that reach a controller of the character.
ControllerOps ==
    {"make_rpc_controller", "make_web_controller", "make_control_transport",
     "controller.start", "rpc_controller.start", "controller.public_keys",
     "controller.derive_policy_encrypting_key", "controller.grant",
     "controller.revoke", "controller.decrypt"}

\* C1: a grant against a federated Authority that carries value or rate fails
\* with ValidationError and controller.grant is never called.
C1_FederatedPaymentRejected ==
    ( /\ params.cmd = "grant"
      /\ alice.built
      /\ alice.federated_only
      /\ (params.value # NoInt \/ params.rate # NoInt)
      /\ pc = "done" )
    => (error = "ValidationError" /\ ~Called("controller.grant"))

\* The environment variable was consulted and was absent.
MissingCredential ==
    \E i \in DOMAIN calls :
        calls[i].op = "os.environ.get" /\ calls[i].ret = "NO_PASSWORD"

\* C2: when the chain-account password is needed in json_ipc mode and the
\* environment variable is absent, startup fails with MissingCredential: the
\* unlock step is never reached with the absent password.
C2_MissingCredentialIsFatal ==
    MissingCredential =>
        /\ ~Called("make_cli_character")
        /\ pc = "done" => error = "MissingCredential"

\* C3: run with dry_run set never enters Serving and processes no request,
\* for either transport.
C3_DryRunNeverServes ==
    (params.cmd = "run" /\ params.dry_run) =>
        (listener # "Serving" /\ served = 0)

\* make_cli_character raised NucypherKeyring.AuthenticationFailed.
AuthenticationFailedRaised ==
    \E i \in DOMAIN calls :
        calls[i].op = "make_cli_character" /\ calls[i].ret = "AuthenticationFailed"

\* C4: once unlocking raises AuthenticationFailed the process has ended with
\* exit status 1 after emitting the failure message; no controller was
\* created or started and no controller operation was invoked.
C4_AuthFailureExitsBeforeController ==
    AuthenticationFailedRaised =>
        /\ pc = "done"
        /\ exit_code = 1
        /\ Len(emitted) > 0 /\ emitted[Len(emitted)] = AuthFailureMessage
        /\ listener = "None"
        /\ transport = "None"
        /\ ~alice.built
        /\ \A i \in DOMAIN calls : calls[i].op \notin ControllerOps

C4_Witness ==
    /\ AuthenticationFailedRaised
    /\ ~config.dev_mode
    /\ params.cmd = "run"
    /\ exit_code = 1

\* create_config has run on the option set of a command that resolves a
\* configuration.
CreateConfigActed ==
    opts.built /\ params.cmd # "init" /\ pc # "options"

\* C5: in ephemeral mode create_config fails with the --federated-only usage
\* error exactly when federated_only is explicitly False; with None or True
\* a configuration is constructed, and none is in the failing case.
C5_EphemeralFederationRule ==
    (CreateConfigActed /\ opts.dev) =>
        /\ (error = "BadOptionUsage:--federated-only")
              <=> (opts.federated_only = "False")
        /\ (opts.federated_only = "False") => (~config.built /\ pc = "done")
        /\ (opts.federated_only # "False") => config.built

C5_Witness ==
    /\ CreateConfigActed
    /\ opts.dev
    /\ error = "BadOptionUsage:--federated-only"
    /\ ~config.built

\* C6: a request that is ephemeral and explicitly not federated is rejected
\* before any I/O: no collaborator is ever called, the managed chain client
\* included.
C6_EphemeralNotFederatedRejectedBeforeIO ==
    (params.dev /\ params.federated_only = "False") =>
        /\ calls = <<>>
        /\ ~config.built

\* C7: when both federated-only and geth are requested, resolution fails with
\* the --geth usage error whatever the other parameters are, before the
\* managed client is obtained and before any later rule is evaluated.
C7_MutualExclusionFirst ==
    (FlagSet(params.federated_only) /\ params.geth /\ pc # "start") =>
        /\ pc = "done"
        /\ error = "BadOptionUsage:--geth"
        /\ exit_code = UsageExit
        /\ calls = <<>>
        /\ ~opts.built
        /\ ~config.built

C7_Witness ==
    /\ error = "BadOptionUsage:--geth"
    /\ params.dev
    /\ params.provider_uri = None
    /\ pc = "done"

\* C8: generate_config on a persistent option set with a chain-backed mode
\* and an empty or unset provider_uri fails with the --provider usage error;
\* account selection, the new-password prompt and AliceConfiguration.generate
\* are never called.
C8_GenerateRequiresProvider ==
    ( /\ params.cmd = "init"
      /\ opts.built
      /\ pc # "options"
      /\ ~opts.dev
      /\ opts.provider_uri \in {None, ""}
      /\ opts.federated_only # "True" )
    => /\ pc = "done"
       /\ error = "BadOptionUsage:--provider"
       /\ ~Called("select_client_account")
       /\ ~Called("get_nucypher_password")
       /\ ~Called("AliceConfiguration.generate")

C8_Witness ==
    /\ params.cmd = "init"
    /\ opts.built
    /\ opts.provider_uri = ""
    /\ opts.federated_only = "False"
    /\ error = "BadOptionUsage:--provider"

\* C9: in persistent mode a FileNotFoundError of the load is always routed to
\* handle_missing_configuration_file with the same config_file and does not
\* propagate; any other load failure propagates and the handler is not
\* called.
C9_OnlyFileNotFoundIsRecoverable ==
    \A i \in DOMAIN calls :
        calls[i].op = "from_configuration_file" =>
            /\ calls[i].ret = "FileNotFoundError" =>
                  /\ i + 1 \in DOMAIN calls
                  /\ calls[i + 1].op = "handle_missing_configuration_file"
                  /\ calls[i + 1].arg.config_file = calls[i].arg.filepath
                  /\ error # "FileNotFoundError"
            /\ calls[i].ret # "FileNotFoundError" =>
                  ~Called("handle_missing_configuration_file")
            /\ calls[i].ret \notin {"ok", "FileNotFoundError"} =>
                  /\ error = calls[i].ret
                  /\ pc = "done"
                  /\ ~config.built

C9_Witness ==
    /\ Called("handle_missing_configuration_file")
    /\ params.config_file = "alice.json"
    /\ ~opts.dev

\* m > n or n = 0, for threshold parameters that were given.
InvalidThreshold(m, n) ==
    \/ n # NoInt /\ n[1] = 0
    \/ m # NoInt /\ n # NoInt /\ m[1] > n[1]

\* C10: controller.grant is never invoked with threshold parameters such
\* that m > n or n = 0.
C10_InvalidThresholdNeverGranted ==
    \A i \in DOMAIN calls :
        calls[i].op = "controller.grant" =>
            ~InvalidThreshold(calls[i].arg.m, calls[i].arg.n)

\* C11: controller.decrypt is never invoked with a message_kit that does not
\* parse as a serialized ciphertext envelope; such a request ends with
\* ValidationError.
C11_MalformedKitRejectedLocally ==
    /\ \A i \in DOMAIN calls :
          calls[i].op = "controller.decrypt" =>
              calls[i].arg.message_kit # "malformed"
    /\ ( /\ params.cmd = "decrypt"
         /\ params.message_kit = "malformed"
         /\ alice.built
         /\ pc = "done" ) => error = "ValidationError"

\* The calls that read or prompt for a credential.
CredentialOps ==
    {"os.environ.get", "get_client_password", "get_nucypher_password"}

\* C12: for an ephemeral configuration create_character obtains no
\* credential: the environment variable is not read, no prompt is issued,
\* the unlock step receives client_password None and unlock_keyring false.
C12_EphemeralNeedsNoCredential ==
    (config.built /\ config.dev_mode) =>
        /\ \A i \in DOMAIN calls : calls[i].op \notin CredentialOps
        /\ client_password = None
        /\ \A i \in DOMAIN calls :
              calls[i].op = "make_cli_character" =>
                  /\ calls[i].arg.client_password = None
                  /\ ~calls[i].arg.unlock_keyring
                  /\ calls[i].ret = "ALICE"

C12_Witness ==
    /\ config.dev_mode
    /\ Called("make_cli_character")
    /\ params.json_ipc
    /\ ~params.hw_wallet
    /\ alice.built

\* The errors raised inside the try block of run (lines 308-322).
CrashErrors == {"ControllerError", "ListenerError", "OperationError"}

\* The lines run writes when nothing fails (lines 318 and 321).
InfoLines == {"Alice Verifying Key", "Running HTTP Alice Controller"}

DiagnosticLines == {i \in DOMAIN emitted : emitted[i] \notin InfoLines}

\* C13: an error raised while the listener is created, started or serving is
\* logged exactly once and reported in exactly one diagnostic line naming
\* the error; the listener ends Crashed; the error is re-raised (non-zero
\* exit) exactly when debug is set, otherwise the command ends cleanly.
C13_CrashReportedOnce ==
    /\ (params.cmd = "run" /\ error \in CrashErrors) =>
          IF pc = "crash"
            THEN logged = 0 /\ DiagnosticLines = {}
            ELSE /\ pc = "done"
                 /\ listener = "Crashed"
                 /\ logged = 1
                 /\ Cardinality(DiagnosticLines) = 1
                 /\ emitted[Len(emitted)] = "Crash:" \o error
                 /\ params.debug => exit_code = 1
                 /\ ~params.debug => exit_code = 0
    /\ listener = "Crashed" => (params.cmd = "run" /\ error \in CrashErrors)
    /\ logged > 0 => listener = "Crashed"

C13_Witness ==
    /\ listener = "Crashed"
    /\ transport = "http"
    /\ error = "OperationError"
    /\ served > 0
    /\ ~params.debug
    /\ exit_code = 0

\* The calls that create a control-plane transport.
ControllerFactories == {"make_rpc_controller", "make_web_controller"}

\* The calls that start one.
ControllerStarts == {"rpc_controller.start", "controller.start"}

\* An earlier make_cli_character call returned the character.
AuthorityReturnedBefore(i) ==
    \E j \in 1..(i - 1) :
        calls[j].op = "make_cli_character" /\ calls[j].ret = "ALICE"

\* C14: at most one transport is created and started per execution of run:
\* the RPC controller exactly when json_ipc is set, the HTTP controller
\* exactly when it is not, never both, and only after create_character has
\* returned.
C14_ExactlyOneTransport ==
    /\ CountCalls("make_rpc_controller") + CountCalls("make_web_controller") <= 1
    /\ CountCalls("rpc_controller.start") + CountCalls("controller.start") <= 1
    /\ Called("make_rpc_controller") => (params.cmd = "run" /\ params.json_ipc)
    /\ Called("make_web_controller") => (params.cmd = "run" /\ ~params.json_ipc)
    /\ Called("rpc_controller.start") => (transport = "rpc" /\ params.json_ipc)
    /\ Called("controller.start") => (transport = "http" /\ ~params.json_ipc)
    /\ transport = "rpc" => (params.json_ipc /\ ~Called("make_web_controller"))
    /\ transport = "http" => (~params.json_ipc /\ ~Called("make_rpc_controller"))
    /\ (params.cmd = "run" /\ pc \in {"created", "bound", "serving"}) =>
          transport = (IF params.json_ipc THEN "rpc" ELSE "http")
    /\ \A i \in DOMAIN calls :
          calls[i].op \in ControllerFactories \cup ControllerStarts =>
              (alice.built /\ AuthorityReturnedBefore(i))

C14_Witness ==
    /\ transport = "rpc"
    /\ listener = "Serving"
    /\ Called("rpc_controller.start")
    /\ params.json_ipc

\* C15: the unlock step is attempted at most once per execution; after
\* AuthenticationFailed nothing further is called (no second credential
\* request, no second unlock) and the process has terminated.
C15_UnlockAttemptedOnce ==
    /\ CountCalls("make_cli_character") <= 1
    /\ CountCalls("os.environ.get") + CountCalls("get_client_password") <= 1
    /\ AuthenticationFailedRaised =>
          /\ calls[Len(calls)].op = "make_cli_character"
          /\ pc = "done"
          /\ exit_code = 1

C15_Witness ==
    /\ AuthenticationFailedRaised
    /\ CountCalls("make_cli_character") = 1
    /\ Called("get_client_password")
    /\ params.cmd = "grant"
    /\ pc = "done"

\* create_character is past its credential stage (lines 196-205).
CredentialStagePassed ==
    params.cmd \in CharacterCommands /\ config.built /\ pc # "config"

\* Chain-backed, not ephemeral, no hardware wallet.
PasswordRequired ==
    ~config.federated_only /\ ~config.dev_mode /\ ~params.hw_wallet

\* The password is requested exactly when required, from the environment
\* only in json_ipc mode and from the prompt only otherwise, and every
\* request precedes the unlock step.
CredentialSourceByMode ==
    CredentialStagePassed =>
        /\ (Called("os.environ.get") \/ Called("get_client_password"))
              <=> PasswordRequired
        /\ Called("os.environ.get") => params.json_ipc
        /\ Called("get_client_password") => ~params.json_ipc
        /\ CountCalls("os.environ.get") + CountCalls("get_client_password") <= 1
        /\ \A i, j \in DOMAIN calls :
              ( /\ calls[i].op = "make_cli_character"
                /\ calls[j].op \in {"os.environ.get", "get_client_password"} )
              => j < i

\* C16: the chain-account password is requested exactly when the
\* configuration is chain-backed, not ephemeral and without hardware wallet,
\* from the one source the mode selects, and in every such case the
\* credential has been obtained when the unlock step is attempted.
C16_CredentialObtainedBeforeUnlock ==
    /\ CredentialSourceByMode
    /\ \A i \in DOMAIN calls :
          (calls[i].op = "make_cli_character" /\ PasswordRequired) =>
              calls[i].arg.client_password \notin {None, "NO_PASSWORD"}

\* generate_config has run on a persistent option set.
PersistentGenerateActed ==
    params.cmd = "init" /\ opts.built /\ pc # "options" /\ ~opts.dev

\* Account selection happens at most once, only in init, and its result is
\* the checksum address given to AliceConfiguration.generate; without it the
\* address given is pay_with.
AccountSelectionUse ==
    /\ CountCalls("select_client_account") <= 1
    /\ Called("select_client_account") => params.cmd = "init"
    /\ \A i \in DOMAIN calls :
          calls[i].op = "select_client_account" =>
              \E j \in DOMAIN calls :
                  /\ j > i
                  /\ calls[j].op = "AliceConfiguration.generate"
                  /\ calls[j].arg.checksum_address = calls[i].ret
    /\ \A j \in DOMAIN calls :
          (calls[j].op = "AliceConfiguration.generate"
              /\ ~Called("select_client_account")) =>
              calls[j].arg.checksum_address = opts.pay_with

\* C17 as stated: account selection is invoked if and only if a new
\* persistent configuration is being generated, pay_with is unset and the
\* network mode is chain-backed; at most once, its result passed to
\* generation, never outside generation.
C17_AccountSelectionIff ==
    /\ AccountSelectionUse
    /\ PersistentGenerateActed =>
          ( Called("select_client_account")
              <=> (opts.pay_with = None /\ opts.federated_only # "True") )

\* C17 amended: account selection is invoked if and only if a new persistent
\* configuration is being generated, pay_with is unset, the network mode is
\* chain-backed and provider_uri is non-empty (the provider check of line
\* 142 has passed); at most once, its result passed to generation, never
\* outside generation.
C17_AccountSelectionIffProviderGiven ==
    /\ AccountSelectionUse
    /\ Called("select_client_account")
          <=> ( /\ PersistentGenerateActed
                /\ opts.pay_with = None
                /\ opts.federated_only # "True"
                /\ opts.provider_uri \notin {None, ""} )

C17_Witness ==
    /\ PersistentGenerateActed
    /\ \E i \in DOMAIN calls :
          /\ calls[i].op = "select_client_account"
          /\ calls[i].ret = "0xACC2"
    /\ \E j \in DOMAIN calls :
          /\ calls[j].op = "AliceConfiguration.generate"
          /\ calls[j].arg.checksum_address = "0xACC2"
    /\ opts.federated_only = "None"

\* C18: every controller creation and every controller operation is preceded
\* in the same execution by a create_character call that returned the
\* character; nothing is dispatched and no listener exists while resolution
\* or authentication has failed or is not complete.
C18_AuthorityBeforeDispatch ==
    /\ \A i \in DOMAIN calls :
          calls[i].op \in ControllerOps => AuthorityReturnedBefore(i)
    /\ (listener # "None" \/ transport # "None" \/ served > 0) => alice.built
    /\ alice.built => (opts.built /\ config.built /\ ~AuthenticationFailedRaised)
    /\ ~alice.built => \A i \in DOMAIN calls : calls[i].op \notin ControllerOps

C18_Witness ==
    /\ params.cmd = "revoke"
    /\ Called("controller.revoke")
    /\ alice.built
    /\ ~config.dev_mode
    /\ pc = "done"

\* C19: generate_config on an ephemeral option set always fails, and fails
\* first: AliceConfiguration.generate is not called, and neither the
\* provider_uri check, account selection nor the new-password prompt is
\* reached.
C19_EphemeralGenerateFailsFirst ==
    (params.cmd = "init" /\ opts.built /\ opts.dev /\ pc # "options") =>
        /\ pc = "done"
        /\ error = "BadArgumentUsage"
        /\ exit_code = UsageExit
        /\ ~Called("select_client_account")
        /\ ~Called("get_nucypher_password")
        /\ ~Called("AliceConfiguration.generate")
        /\ ~Called("paint_new_installation_help")

C19_Witness ==
    /\ params.cmd = "init"
    /\ opts.dev
    /\ opts.provider_uri = ""
    /\ opts.federated_only = "False"
    /\ opts.pay_with = None
    /\ error = "BadArgumentUsage"
====
